---- MODULE Spec2Model ----
(***************************************************************************)
(* A model of btparser.py: the BitTorrent peer-wire stream decoder         *)
(* (BitTorrentParser), the piece reassembler (MyBitTorrentParser) and the  *)
(* batch driver (parse_file / parse_directory).                            *)
(*                                                                         *)
(* A stream is a sequence of bytes (0..255), 1-indexed in TLA+; every      *)
(* offset named n, f, a, b below is the 0-based Python offset.             *)
(***************************************************************************)
EXTENDS Integers, Sequences, FiniteSets, TLC

(***************************************************************************)
(* Python byte strings                                                     *)
(***************************************************************************)

Min(a, b) == IF a < b THEN a ELSE b

Max(a, b) == IF a > b THEN a ELSE b

\* s[a:b] for 0 <= a, 0 <= b: clamped to the string, empty when b <= a.
PySlice(s, a, b) ==
  LET lo == Min(a, Len(s))
      hi == Min(b, Len(s))
  IN  IF hi <= lo THEN <<>> ELSE [k \in 1..(hi - lo) |-> s[lo + k]]

\* s[a] for 0 <= a < len(s) (the caller checks the range: IndexError otherwise).
PyAt(s, a) == s[a + 1]

\* ntohl(struct.unpack('I', s)[0]) for a 4-byte s: the big-endian value.
\* struct.unpack raises struct.error unless len(s) = 4 (see HasU32).
U32(s) == ((s[1] * 256 + s[2]) * 256 + s[3]) * 256 + s[4]

\* ntohs(struct.unpack('H', s)[0]) for a 2-byte s.
U16(s) == s[1] * 256 + s[2]

\* The 4 (resp. 2) bytes struct.unpack is handed are all there.
HasU32(stream, a) == a + 4 <= Len(stream)

HasU16(stream, a) == a + 2 <= Len(stream)

PSTR == <<66, 105, 116, 84, 111, 114, 114, 101, 110, 116, 32, 112, 114, 111,
          116, 111, 99, 111, 108>>  \* "BitTorrent protocol"

K_m == <<109>>  \* "m"

K_added == <<97, 100, 100, 101, 100>>  \* "added"

K_added_f == <<97, 100, 100, 101, 100, 46, 102>>  \* "added.f"

K_dropped == <<100, 114, 111, 112, 112, 101, 100>>  \* "dropped"

K_added6 == <<97, 100, 100, 101, 100, 54>>  \* "added6"

K_added6_f == <<97, 100, 100, 101, 100, 54, 46, 102>>  \* "added6.f"

K_dropped6 == <<100, 114, 111, 112, 112, 101, 100, 54>>  \* "dropped6"

K_piece_length == <<112, 105, 101, 99, 101, 32, 108, 101, 110, 103, 116, 104>>  \* "piece length"

K_pieces == <<112, 105, 101, 99, 101, 115>>  \* "pieces"

K_msg_type == <<109, 115, 103, 95, 116, 121, 112, 101>>  \* "msg_type"

K_piece == <<112, 105, 101, 99, 101>>  \* "piece"

N_ut_metadata == <<117, 116, 95, 109, 101, 116, 97, 100, 97, 116, 97>>  \* "ut_metadata"

N_upload_only == <<117, 112, 108, 111, 97, 100, 95, 111, 110, 108, 121>>  \* "upload_only"

N_lt_tex == <<108, 116, 95, 116, 101, 120>>  \* "lt_tex"

N_ut_pex == <<117, 116, 95, 112, 101, 120>>  \* "ut_pex"

N_ut_holepunch == <<117, 116, 95, 104, 111, 108, 101, 112, 117, 110, 99, 104>>  \* "ut_holepunch"

(***************************************************************************)
(* The bencode codec (the external library the parser calls).              *)
(* A decoded value is a record of one shape:                               *)
(*   t = "int":  i the integer                                             *)
(*   t = "str":  s the bytes                                               *)
(*   t = "list": kids the elements                                         *)
(*   t = "dict": keys[k] maps to kids[k] (keys distinct)                   *)
(***************************************************************************)

VInt(n) == [t |-> "int", i |-> n, s |-> <<>>, keys |-> <<>>, kids |-> <<>>]

VStr(b) == [t |-> "str", i |-> 0, s |-> b, keys |-> <<>>, kids |-> <<>>]

VList(l) == [t |-> "list", i |-> 0, s |-> <<>>, keys |-> <<>>, kids |-> l]

VDict(ks, vs) == [t |-> "dict", i |-> 0, s |-> <<>>, keys |-> ks, kids |-> vs]

\* k in d
DictHas(d, k) == \E j \in 1..Len(d.keys) : d.keys[j] = k

\* d[k] (the caller checks DictHas: KeyError otherwise)
DictGet(d, k) == d.kids[CHOOSE j \in 1..Len(d.keys) : d.keys[j] = k]

\* r[k] = v on a dict under construction
DictPut(ks, vs, k, v) ==
  IF \E j \in 1..Len(ks) : ks[j] = k
  THEN LET j == CHOOSE j \in 1..Len(ks) : ks[j] = k
       IN  <<ks, [vs EXCEPT ![j] = v]>>
  ELSE <<Append(ks, k), Append(vs, v)>>

IsDigit(c) == c >= 48 /\ c <= 57

AllDigits(s) == Len(s) > 0 /\ \A j \in 1..Len(s) : IsDigit(s[j])

RECURSIVE DigitsVal(_)
DigitsVal(s) ==
  IF s = <<>> THEN 0
  ELSE DigitsVal(SubSeq(s, 1, Len(s) - 1)) * 10 + (s[Len(s)] - 48)

\* x.index(c, f): the first offset >= f holding c, or -1 (ValueError).
IndexFrom(x, c, f) ==
  IF \E j \in f..(Len(x) - 1) : PyAt(x, j) = c
  THEN CHOOSE j \in f..(Len(x) - 1) :
         PyAt(x, j) = c /\ \A h \in f..(j - 1) : PyAt(x, h) # c
  ELSE -1

BFail == [ok |-> FALSE, val |-> VInt(0), nxt |-> 0]

\* decode_int(x, f): "i" digits "e"; "-0" and leading zeros are refused.
DecodeInt(x, f) ==
  LET g == f + 1
      newf == IndexFrom(x, 101, g)
      txt == PySlice(x, g, newf)
      neg == Len(txt) > 0 /\ txt[1] = 45
      mag == IF neg THEN Tail(txt) ELSE txt
  IN  IF newf < 0 \/ ~AllDigits(mag) THEN BFail
      ELSE IF neg /\ mag[1] = 48 THEN BFail
      ELSE IF ~neg /\ mag[1] = 48 /\ newf # g + 1 THEN BFail
      ELSE [ok |-> TRUE,
            val |-> VInt(IF neg THEN 0 - DigitsVal(mag) ELSE DigitsVal(mag)),
            nxt |-> newf + 1]

\* decode_string(x, f): digits ":" bytes; a short tail is sliced, not refused
\* (the caller then runs off the end of x).
DecodeString(x, f) ==
  LET colon == IndexFrom(x, 58, f)
      txt == PySlice(x, f, colon)
  IN  IF colon < 0 \/ ~AllDigits(txt) THEN BFail
      ELSE IF txt[1] = 48 /\ colon # f + 1 THEN BFail
      ELSE [ok |-> TRUE,
            val |-> VStr(PySlice(x, colon + 1, colon + 1 + DigitsVal(txt))),
            nxt |-> colon + 1 + DigitsVal(txt)]

RECURSIVE DecodeAny(_, _), DecodeListItems(_, _, _), DecodeDictItems(_, _, _, _)
\* decode_func[x[f]](x, f); x[f] out of range or no key of decode_func: failure.
DecodeAny(x, f) ==
  IF f >= Len(x) THEN BFail
  ELSE LET c == PyAt(x, f)
       IN  IF c = 105 THEN DecodeInt(x, f)
           ELSE IF IsDigit(c) THEN DecodeString(x, f)
           ELSE IF c = 108 THEN DecodeListItems(x, f + 1, <<>>)
           ELSE IF c = 100 THEN DecodeDictItems(x, f + 1, <<>>, <<>>)
           ELSE BFail

\* decode_list's loop: while x[f] != 'e'
DecodeListItems(x, f, acc) ==
  IF f >= Len(x) THEN BFail
  ELSE IF PyAt(x, f) = 101 THEN [ok |-> TRUE, val |-> VList(acc), nxt |-> f + 1]
  ELSE LET r == DecodeAny(x, f)
       IN  IF ~r.ok THEN BFail ELSE DecodeListItems(x, r.nxt, Append(acc, r.val))

\* decode_dict's loop: while x[f] != 'e': k = string; r[k] = value
DecodeDictItems(x, f, ks, vs) ==
  IF f >= Len(x) THEN BFail
  ELSE IF PyAt(x, f) = 101 THEN [ok |-> TRUE, val |-> VDict(ks, vs), nxt |-> f + 1]
  ELSE LET k == DecodeString(x, f)
       IN  IF ~k.ok THEN BFail
           ELSE LET v == DecodeAny(x, k.nxt)
                IN  IF ~v.ok THEN BFail
                    ELSE LET p == DictPut(ks, vs, k.val.s, v.val)
                         IN  DecodeDictItems(x, v.nxt, p[1], p[2])

\* bencode.bdecode(x): ok = FALSE is BTFailure (also for data after the value).
BDecode(x) ==
  LET r == DecodeAny(x, 0)
  IN  IF r.ok /\ r.nxt = Len(x) THEN r ELSE BFail

RECURSIVE NatDigits(_)
NatDigits(n) ==
  IF n < 10 THEN <<48 + n>> ELSE Append(NatDigits(n \div 10), 48 + (n % 10))

\* bencode.bencode of a non-negative int and of a byte string.
BEncodeInt(n) == <<105>> \o NatDigits(n) \o <<101>>

BEncodeStr(b) == NatDigits(Len(b)) \o <<58>> \o b

\* a < b in the byte order bencode sorts a dict's keys by
RECURSIVE LexLess(_, _)
LexLess(a, b) ==
  IF b = <<>> THEN FALSE
  ELSE IF a = <<>> THEN TRUE
  ELSE IF a[1] # b[1] THEN a[1] < b[1]
  ELSE LexLess(Tail(a), Tail(b))

RECURSIVE BEncode(_), BEncodeList(_), BEncodeDict(_, _)
\* bencode.bencode(v)
BEncode(v) ==
  IF v.t = "int"
  THEN (IF v.i < 0 THEN <<105, 45>> \o NatDigits(0 - v.i) \o <<101>> ELSE BEncodeInt(v.i))
  ELSE IF v.t = "str" THEN BEncodeStr(v.s)
  ELSE IF v.t = "list" THEN <<108>> \o BEncodeList(v.kids) \o <<101>>
  ELSE <<100>> \o BEncodeDict(v, 1..Len(v.keys)) \o <<101>>

BEncodeList(l) == IF l = <<>> THEN <<>> ELSE BEncode(Head(l)) \o BEncodeList(Tail(l))

\* the items of dict v at the positions in left, by ascending key
BEncodeDict(v, left) ==
  IF left = {} THEN <<>>
  ELSE LET j == CHOOSE j \in left : \A h \in left \ {j} : LexLess(v.keys[j], v.keys[h])
       IN  BEncodeStr(v.keys[j]) \o BEncode(v.kids[j]) \o BEncodeDict(v, left \ {j})

(***************************************************************************)
(* The SHA-1 digest (hashlib, external): a 20-byte digest of the bytes.    *)
(* The model computes a position-weighted checksum in its place; equal     *)
(* inputs give equal digests, and the inputs of the model give distinct    *)
(* ones.                                                                   *)
(***************************************************************************)

RECURSIVE WSum(_, _)
WSum(b, k) ==
  IF b = <<>> THEN 0
  ELSE WSum(SubSeq(b, 1, Len(b) - 1), k) + b[Len(b)] * (Len(b) + k)

Sha1(b) == [k \in 1..20 |-> (Len(b) * 7 + k * 3 + WSum(b, k)) % 256]

(***************************************************************************)
(* The parser's state as the handlers see it.                              *)
(*   p = [ext, pieces, size, events, log]                                  *)
(*     ext     extended_message_associtions (module-level dict): a         *)
(*             function from decoded numbers to extension names            *)
(*     pieces  self.pieces: <<infohash, index>> -> sequence of             *)
(*             <<data, begin>>                                             *)
(*     size    self.current_pieces_size                                    *)
(*     events  the observer calls made so far (new_message,                *)
(*             new_extended_message), each stamped with the file and the   *)
(*             offset of the message that made it                          *)
(*     log     the logger's records, stamped likewise                      *)
(*   c = [stream, n, file, infohash, infos]: the call's context            *)
(* A handler returns [p, exc]: exc = "none" or the exception raised.       *)
(***************************************************************************)

Ok(p) == [p |-> p, exc |-> "none"]

Raise(p, e) == [p |-> p, exc |-> e]

\* self.logger.<level>(...): rec holds the record's fields
Logged(p, c, rec) ==
  [p EXCEPT !.log = Append(@, rec @@ [file |-> c.file, off |-> c.n])]

\* the observer call itself, whatever the subclass does with it
Observed(p, c, cb, name, attrs) ==
  [p EXCEPT !.events = Append(@, [cb |-> cb, name |-> name, attrs |-> attrs,
                                  file |-> c.file, off |-> c.n])]

\* blocks.sort(key=lambda r: r[1]): stable, ascending begin (insertion sort)
RECURSIVE SortByBegin(_)
SortByBegin(blocks) ==
  IF blocks = <<>> THEN <<>>
  ELSE LET rest == SortByBegin(SubSeq(blocks, 1, Len(blocks) - 1))
           b == blocks[Len(blocks)]
           k == Cardinality({j \in 1..Len(rest) : rest[j][2] <= b[2]})
       IN  SubSeq(rest, 1, k) \o <<b>> \o SubSeq(rest, k + 1, Len(rest))

\* [i[0] for i in blocks if i[1] == n]
BlocksAt(blocks, n) == SelectSeq(blocks, LAMBDA i : i[2] = n)

\* [i for i in blocks if i[1] != n]
BlocksNotAt(blocks, n) == SelectSeq(blocks, LAMBDA i : i[2] # n)

\* check_piece's while loop: the bytes read greedily from offset n on
RECURSIVE Assemble(_, _, _, _)
Assemble(blocks, n, piece, piece_length) ==
  IF ~(n < piece_length) THEN piece
  ELSE LET b == BlocksAt(blocks, n)
       IN  IF b = <<>> THEN piece
           ELSE Assemble(BlocksNotAt(blocks, n), n + Len(b[1][1]),
                         piece \o b[1][1], piece_length)

\* the slice taken at index instead of index*20
ExpectedHashAtIndex(pieces_blob, index) == PySlice(pieces_blob, index, index + 20)

\* info['pieces'][index*20:index*20+20]
ExpectedHash(pieces_blob, index) == PySlice(pieces_blob, index * 20, index * 20 + 20)

\* the entry of a complete piece left in place
KeepEntry(pcs, key) == pcs

\* del self.pieces[(self.current_infohash, index)]
DeleteEntry(pcs, key) == [k \in DOMAIN pcs \ {key} |-> pcs[k]]

\* the entry stripped of the fragments the loop's first turn consumes
StoreUnconsumed(pcs, key, blocks) == [pcs EXCEPT ![key] = BlocksNotAt(blocks, 0)]

\* blocks = self.pieces[...]; blocks.sort(...): the list of the entry itself
\* is sorted, in place
StoreSorted(pcs, key, blocks) == [pcs EXCEPT ![key] = blocks]

\* MyBitTorrentParser.check_piece(index)
check_piece(p, c, index) ==
  IF c.infohash \notin DOMAIN c.infos THEN Ok(p)
  ELSE LET info == c.infos[c.infohash]
           key == <<c.infohash, index>>
       IN  IF ~DictHas(info, K_piece_length) THEN Raise(p, "KeyError")
           ELSE LET piece_length == DictGet(info, K_piece_length).i
                    blocks == SortByBegin(p.pieces[key])
                    p1 == [p EXCEPT !.pieces = StoreSorted(@, key, blocks)]
                    piece == Assemble(blocks, 0, <<>>, piece_length)
                IN  IF Len(piece) # piece_length THEN Ok(p1)
                    ELSE LET p2 == Logged(p1, c, [msg |-> "Piece complete",
                                                   index |-> index, piece |-> piece])
                         IN  IF ~DictHas(info, K_pieces) THEN Raise(p2, "KeyError")
                             ELSE LET got_hash == Sha1(piece)
                                      expected_hash ==
                                        ExpectedHash(DictGet(info, K_pieces).s, index)
                                      p3 == Logged(p2, c,
                                              [msg |-> IF got_hash = expected_hash
                                                       THEN "Hash match"
                                                       ELSE "Hash did not match",
                                               index |-> index, piece |-> piece])
                                  IN  Ok([p3 EXCEPT !.pieces = DeleteEntry(@, key)])

\* MyBitTorrentParser.new_message past its name test (name = 'piece')
new_message_piece(p, c, index, begin, data) ==
  LET key == <<c.infohash, index>>
      old == IF key \in DOMAIN p.pieces THEN p.pieces[key] ELSE <<>>
      p1 == [p EXCEPT !.size = @ + Len(data),
                      !.pieces = (key :> Append(old, <<data, begin>>)) @@ @]
  IN  check_piece(p1, c, index)

\* BitTorrentParser.__new_message -> self.new_message(name, **attrs), which
\* MyBitTorrentParser overrides: every name but 'piece' returns at once.
new_message(p, c, name, attrs) ==
  LET p1 == Observed(p, c, "new_message", name, attrs)
  IN  IF name # "piece" THEN Ok(p1)
      ELSE new_message_piece(p1, c, attrs.index, attrs.begin, attrs.data)

\* BitTorrentParser.new_extended_message(name, **attrs): a no-op receiving the call
new_extended_message(p, c, name, attrs) ==
  Observed(p, c, "new_extended_message", name, attrs)

\* BitTorrentParser.__new_extended_message: the wrapper event under the
\* message number 20 (written "20" here), then new_extended_message.
priv_new_extended_message(p, c, name, attrs) ==
  LET r == new_message(p, c, "20", [extension_name |-> name] @@ attrs)
  IN  IF r.exc # "none" THEN r
      ELSE Ok(new_extended_message(r.p, c, name, attrs))

(***************************************************************************)
(* The message handlers (message_parsers[id]).                             *)
(* c.n is the offset of the message's length prefix.                       *)
(***************************************************************************)

NoAttrs == <<>>

\* the three big-endian words of request / cancel / reject can be unpacked
HasWords(c, k) == HasU32(c.stream, c.n + 5 + 4 * (k - 1))

Word(c, k) == U32(PySlice(c.stream, c.n + 5 + 4 * (k - 1), c.n + 9 + 4 * (k - 1)))

parse_message_choke(p, c, length) == new_message(p, c, "choke", NoAttrs)

parse_message_unchoke(p, c, length) == new_message(p, c, "unchoke", NoAttrs)

parse_message_interested(p, c, length) == new_message(p, c, "interested", NoAttrs)

parse_message_not_interested(p, c, length) ==
  new_message(p, c, "not_interested", NoAttrs)

parse_message_have(p, c, length) ==
  IF ~HasWords(c, 1) THEN Raise(p, "struct.error")
  ELSE new_message(p, c, "have", [index |-> Word(c, 1)])

\* bitfield = stream[n+5:n+length]
parse_message_bitfield(p, c, length) ==
  new_message(p, c, "bitfield",
              [bitfield |-> PySlice(c.stream, c.n + 5, c.n + length)])

parse_message_request(p, c, length) ==
  IF ~HasWords(c, 3) THEN Raise(p, "struct.error")
  ELSE new_message(p, c, "request",
                   [index |-> Word(c, 1), begin |-> Word(c, 2), length |-> Word(c, 3)])

\* data = stream[n+13:n+13+length-1-8]; assert(len(data) == block_size)
parse_message_piece(p, c, length) ==
  IF ~HasWords(c, 2) THEN Raise(p, "struct.error")
  ELSE LET block_size == length - 1 - 8
           data == PySlice(c.stream, c.n + 13, Max(0, c.n + 13 + length - 1 - 8))
       IN  IF Len(data) # block_size THEN Raise(p, "AssertionError")
           ELSE new_message(p, c, "piece",
                            [index |-> Word(c, 1), begin |-> Word(c, 2), data |-> data])

\* @register_message(8): the second function named parse_message_choke
parse_message_cancel(p, c, length) ==
  IF ~HasWords(c, 3) THEN Raise(p, "struct.error")
  ELSE new_message(p, c, "cancel",
                   [index |-> Word(c, 1), begin |-> Word(c, 2), length |-> Word(c, 3)])

parse_message_port(p, c, length) ==
  IF ~HasU16(c.stream, c.n + 5) THEN Raise(p, "struct.error")
  ELSE new_message(p, c, "port", [port |-> U16(PySlice(c.stream, c.n + 5, c.n + 7))])

parse_message_suggest_piece(p, c, length) ==
  IF ~HasWords(c, 1) THEN Raise(p, "struct.error")
  ELSE new_message(p, c, "suggest_piece", [index |-> Word(c, 1)])

parse_message_have_all(p, c, length) == new_message(p, c, "have_all", NoAttrs)

parse_message_have_none(p, c, length) == new_message(p, c, "have_none", NoAttrs)

\* unpacks index, begin, length and passes none of them on
parse_message_reject(p, c, length) ==
  IF ~HasWords(c, 3) THEN Raise(p, "struct.error")
  ELSE new_message(p, c, "reject", NoAttrs)

\* unpacks index and does not pass it on
parse_message_allowed_fast(p, c, length) ==
  IF ~HasWords(c, 1) THEN Raise(p, "struct.error")
  ELSE new_message(p, c, "allowed_fast", NoAttrs)

(***************************************************************************)
(* The extended payload decoders (extended_message_parsers[name]).         *)
(***************************************************************************)

\* stream[n+6:n+length+4]
ExtPayload(c, length) == PySlice(c.stream, c.n + 6, c.n + length + 4)

\* len(v) of a decoded value (an int has none: TypeError)
PyLen(v) ==
  IF v.t = "str" THEN Len(v.s) ELSE IF v.t = "list" THEN Len(v.kids) ELSE Len(v.keys)

\* b & mask for a one-bit mask
BitAnd(b, mask) == ((b \div mask) % 2) * mask

\* len([i for i in flags if ord(i) & 0x01 == 1])
PreferEncryption(flags) ==
  Cardinality({j \in 1..Len(flags) : BitAnd(flags[j], 1) = 1})

\* len([i for i in flags if ord(i) & 0x02 == 1])
Seeders(flags) ==
  Cardinality({j \in 1..Len(flags) : BitAnd(flags[j], 2) = 1})

\* parse_message_ut_metadata past its bdecode: d is the decoder's result
ut_metadata_decoded(p, c, d) ==
  IF ~d.ok THEN Raise(p, "InvalidBitTorrentStreamError")
  ELSE IF d.val.t # "dict" THEN Raise(p, "TypeError")
  ELSE IF ~DictHas(d.val, K_msg_type) THEN Raise(p, "KeyError")
  ELSE LET mt == DictGet(d.val, K_msg_type)
       IN  IF mt.t = "int" /\ mt.i = 1 THEN Raise(p, "TypeError")
           ELSE IF ~DictHas(d.val, K_piece) THEN Raise(p, "KeyError")
           ELSE priv_new_extended_message(
                  IF mt.t = "int" /\ mt.i \in {0, 2}
                  THEN Logged(p, c, [msg |-> "ut_metadata", msg_type |-> mt.i,
                                     piece |-> DictGet(d.val, K_piece)])
                  ELSE p,
                  c, N_ut_metadata, [piece |-> DictGet(d.val, K_piece)])

parse_message_ut_metadata(p, c, length) ==
  ut_metadata_decoded(p, c, BDecode(ExtPayload(c, length)))

\* parse_message_upload_only past its slice of the payload
upload_only_payload(p, c, payload) ==
  IF Len(payload) = 0 THEN Raise(p, "IndexError")
  ELSE priv_new_extended_message(
         Logged(p, c, [msg |-> "upload_only", on |-> (payload[1] # 0)]),
         c, N_upload_only, [value |-> (payload[1] # 0)])

parse_message_upload_only(p, c, length) ==
  upload_only_payload(p, c, ExtPayload(c, length))

\* parse_message_lt_tex past its bdecode
lt_tex_decoded(p, c, d) ==
  IF ~d.ok THEN Raise(p, "InvalidBitTorrentStreamError")
  ELSE IF d.val.t # "dict" THEN Raise(p, "TypeError")
  ELSE IF ~DictHas(d.val, K_added) THEN Raise(p, "KeyError")
  ELSE IF DictGet(d.val, K_added).t = "int" THEN Raise(p, "TypeError")
  ELSE priv_new_extended_message(
         Logged(p, c, [msg |-> "lt_tex", trackers |-> PyLen(DictGet(d.val, K_added))]),
         c, N_lt_tex, [added |-> DictGet(d.val, K_added)])

parse_message_lt_tex(p, c, length) ==
  lt_tex_decoded(p, c, BDecode(ExtPayload(c, length)))

\* the IPv6 half of parse_message_ut_pex, m the decoded dict
ut_pex_ipv6(p, c, m) ==
  IF ~(DictHas(m, K_added6) /\ DictHas(m, K_added6_f) /\ DictHas(m, K_dropped6))
  THEN Ok(p)
  ELSE LET a6 == DictGet(m, K_added6)
           f6 == DictGet(m, K_added6_f)
           d6 == DictGet(m, K_dropped6)
       IN  IF a6.t = "int" THEN Raise(p, "TypeError")
           ELSE IF PyLen(a6) = 0 /\ d6.t = "int" THEN Raise(p, "TypeError")
           ELSE IF ~(PyLen(a6) > 0 \/ PyLen(d6) > 0) THEN Ok(p)
           ELSE IF f6.t # "str" \/ d6.t = "int" THEN Raise(p, "TypeError")
           ELSE Ok(Logged(p, c, [msg |-> "ut_pex6",
                                 added |-> PyLen(a6) \div 18,
                                 prefer_encryption |-> PreferEncryption(f6.s),
                                 seeders |-> Seeders(f6.s),
                                 dropped |-> PyLen(d6) \div 18]))

\* the end of parse_message_ut_pex: r is the IPv6 half's outcome
ut_pex_event(r, c, m) ==
  IF r.exc # "none" THEN r
  ELSE priv_new_extended_message(r.p, c, N_ut_pex, [value |-> m])

\* parse_message_ut_pex past its bdecode
ut_pex_decoded(p, c, d) ==
  IF ~d.ok THEN Raise(p, "InvalidBitTorrentStreamError")
  ELSE IF d.val.t # "dict" THEN Raise(p, "TypeError")
  ELSE IF ~DictHas(d.val, K_added) \/ ~DictHas(d.val, K_added_f) THEN Raise(p, "KeyError")
  ELSE IF DictGet(d.val, K_added_f).t # "str" \/ DictGet(d.val, K_added).t = "int"
       THEN Raise(p, "TypeError")
  ELSE IF ~DictHas(d.val, K_dropped) THEN Raise(p, "KeyError")
  ELSE IF DictGet(d.val, K_dropped).t = "int" THEN Raise(p, "TypeError")
  ELSE ut_pex_event(
         ut_pex_ipv6(
           Logged(p, c, [msg |-> "ut_pex",
                         added |-> PyLen(DictGet(d.val, K_added)) \div 6,
                         prefer_encryption |->
                           PreferEncryption(DictGet(d.val, K_added_f).s),
                         seeders |-> Seeders(DictGet(d.val, K_added_f).s),
                         dropped |-> PyLen(DictGet(d.val, K_dropped)) \div 6]),
           c, d.val),
         c, d.val)

parse_message_ut_pex(p, c, length) ==
  ut_pex_decoded(p, c, BDecode(ExtPayload(c, length)))

\* the keys of extended_message_parsers
ExtendedParserNames == {N_ut_metadata, N_upload_only, N_lt_tex, N_ut_pex}

\* extended_message_parsers[name](self, stream, n - 6, length)
ExtendedParser(name, p, c, length) ==
  IF name = N_ut_metadata THEN parse_message_ut_metadata(p, c, length)
  ELSE IF name = N_upload_only THEN parse_message_upload_only(p, c, length)
  ELSE IF name = N_lt_tex THEN parse_message_lt_tex(p, c, length)
  ELSE parse_message_ut_pex(p, c, length)

(***************************************************************************)
(* Extension negotiation (message 20).                                     *)
(***************************************************************************)

\* the number 0 installed like any other number
DisableInstallsZero(ext, name) == (VInt(0) :> name) @@ ext

\* "disable this extension": the filtered dict is bound to a new local name,
\* extended_message_associations; the module-level table is left as it is.
DisableExtension(ext, name) == ext

\* "add this extension": extended_message_associtions[number] = name
AddExtension(ext, number, name) == (number :> name) @@ ext

\* the loop over handshake['m'].items(), in the order `order` of m's items;
\* a list or dict as number cannot be a key (TypeError), the items before it
\* are already applied
RECURSIVE ApplyHandshake(_, _, _)
ApplyHandshake(ext, m, order) ==
  IF order = <<>> THEN [ext |-> ext, exc |-> "none"]
  ELSE LET name == m.keys[Head(order)]
           number == m.kids[Head(order)]
       IN  IF number.t = "int" /\ number.i = 0
           THEN ApplyHandshake(DisableExtension(ext, name), m, Tail(order))
           ELSE IF number.t \in {"list", "dict"}
           THEN [ext |-> ext, exc |-> "TypeError"]
           ELSE ApplyHandshake(AddExtension(ext, number, name), m, Tail(order))

\* the orders a dict's items() may come in
ItemOrders(k) ==
  {o \in [1..k -> 1..k] : \A a, b \in 1..k : a # b => o[a] # o[b]}

\* the loop of the extended handshake, p the parser after the handshake is
\* logged: one outcome per order of the m dict's items
extended_handshake_items(p, handshake) ==
  IF handshake.t # "dict" THEN {Raise(p, "TypeError")}
  ELSE IF ~DictHas(handshake, K_m) THEN {Raise(p, "KeyError")}
  ELSE IF DictGet(handshake, K_m).t # "dict" THEN {Raise(p, "AttributeError")}
  ELSE {Raise([p EXCEPT !.ext = ApplyHandshake(p.ext, DictGet(handshake, K_m), o).ext],
              ApplyHandshake(p.ext, DictGet(handshake, K_m), o).exc)
        : o \in ItemOrders(Len(DictGet(handshake, K_m).keys))}

\* parser_message_extended for id == 0, d the result of bencode.bdecode
extended_handshake(p, c, d) ==
  IF ~d.ok THEN {Raise(p, "BTFailure")}
  ELSE extended_handshake_items(
         Logged(p, c, [msg |-> "HANDSHAKE", handshake |-> d.val]), d.val)

\* the table looked up with no test of the id: a KeyError
UnknownExtendedKeyError(p, c, id) == {Raise(p, "KeyError")}

\* parser_message_extended: the id is no key of the table (a warning, no event)
UnknownExtended(p, c, id) ==
  {Ok(Logged(p, c, [msg |-> "EXTENDED UNKNOWN MESSAGE ID", id |-> id]))}

\* parser_message_extended for a nonzero id
extended_message(p, c, length, id) ==
  IF VInt(id) \in DOMAIN p.ext
  THEN IF p.ext[VInt(id)] \notin ExtendedParserNames
       THEN {Ok(new_extended_message(
                  Logged(p, c, [msg |-> "EXTENDED message", name |-> p.ext[VInt(id)]]),
                  c, p.ext[VInt(id)], NoAttrs))}
       ELSE {ExtendedParser(p.ext[VInt(id)], p, c, length)}
  ELSE UnknownExtended(p, c, id)

\* parser_message_extended: the set of its outcomes
parser_message_extended(p, c, length) ==
  IF ~(c.n + 5 < Len(c.stream)) THEN {Raise(p, "IndexError")}
  ELSE IF PyAt(c.stream, c.n + 5) = 0
  THEN extended_handshake(
         p, c, BDecode(PySlice(c.stream, c.n + 6, c.n + 6 + (length - 2))))
  ELSE extended_message(p, c, length, PyAt(c.stream, c.n + 5))

(***************************************************************************)
(* Framing and dispatch.                                                   *)
(***************************************************************************)

HandshakeLength == 68

MaxMessageLength == 16393

\* the keys of message_parsers
MessageIds == {0, 1, 2, 3, 4, 5, 6, 7, 8, 9, 13, 14, 15, 16, 17, 20}

\* message_parsers[id](self, stream, n, length); no such key: KeyError
MessageParser(id, p, c, length) ==
  IF id \notin MessageIds THEN {Raise(p, "KeyError")}
  ELSE IF id = 20 THEN parser_message_extended(p, c, length)
  ELSE {CASE id = 0 -> parse_message_choke(p, c, length)
          [] id = 1 -> parse_message_unchoke(p, c, length)
          [] id = 2 -> parse_message_interested(p, c, length)
          [] id = 3 -> parse_message_not_interested(p, c, length)
          [] id = 4 -> parse_message_have(p, c, length)
          [] id = 5 -> parse_message_bitfield(p, c, length)
          [] id = 6 -> parse_message_request(p, c, length)
          [] id = 7 -> parse_message_piece(p, c, length)
          [] id = 8 -> parse_message_cancel(p, c, length)
          [] id = 9 -> parse_message_port(p, c, length)
          [] id = 13 -> parse_message_suggest_piece(p, c, length)
          [] id = 14 -> parse_message_have_all(p, c, length)
          [] id = 15 -> parse_message_have_none(p, c, length)
          [] id = 16 -> parse_message_reject(p, c, length)
          [] OTHER -> parse_message_allowed_fast(p, c, length)}

\* if n + 4 >= len(stream): raise UnexpectedEndOfStreamError()
PrefixMissing(stream, n) == n + 4 >= Len(stream)

\* the body check with the 4 bytes of the length prefix left out
BodyMissingNoPrefix(stream, n, length) == n + length > Len(stream)

\* if n + 4 + length > len(stream): raise UnexpectedEndOfStreamError()
BodyMissing(stream, n, length) == n + 4 + length > Len(stream)

\* except KeyError: warn and report the message as 'unknown'
OnKeyError(r, c, id) ==
  IF r.exc # "KeyError" THEN r
  ELSE new_message(Logged(r.p, c, [msg |-> "UNKNOWN MESSAGE ID", id |-> id]),
                   c, "unknown", [message_id |-> id])

\* parse_message's return value after the handler: r the handler's outcome
Returned(r, c, length) ==
  [p |-> r.p, exc |-> r.exc, n |-> IF r.exc = "none" THEN c.n + length + 4 ELSE c.n]

\* parse_message from its try block on: p has the length warning logged
Dispatch(p, c, length, id) ==
  IF BodyMissing(c.stream, c.n, length)
  THEN {[p |-> p, exc |-> "UnexpectedEndOfStreamError", n |-> c.n]}
  ELSE {Returned(OnKeyError(r, c, id), c, length) : r \in MessageParser(id, p, c, length)}

\* parse_message once the length prefix is read
Framed(p, c, length) ==
  IF length = 0 THEN {[p |-> p, exc |-> "none", n |-> c.n + 4]}
  ELSE Dispatch(IF length > MaxMessageLength
                THEN Logged(p, c, [msg |-> "Message length is over 16393"])
                ELSE p,
                c, length, PyAt(c.stream, c.n + 4))

\* BitTorrentParser.parse_message(stream, n): the outcomes [p, exc, n], n the
\* offset returned (the offset of the message when it raised)
parse_message(p, c) ==
  IF PrefixMissing(c.stream, c.n)
  THEN {[p |-> p, exc |-> "UnexpectedEndOfStreamError", n |-> c.n]}
  ELSE Framed(p, c, U32(PySlice(c.stream, c.n, c.n + 4)))

\* BitTorrentParser.add_info(info)
add_info(infos, info) == (Sha1(BEncode(info)) :> info) @@ infos

(***************************************************************************)
(* The program's state.                                                    *)
(***************************************************************************)

VARIABLES
  files,                \* the streams of the batch, in the order they are parsed
  infos,                \* self.infos: infohash -> info dict
  fi,                   \* the file parse_directory's loop is at (1-based)
  pc,                   \* "file", "stream", "msg" or "aborted"
  n,                    \* parse_stream's offset n
  current_infohash,     \* self.current_infohash
  current_peerid,       \* self.current_peerid
  current_pieces_size,  \* self.current_pieces_size
  pieces,               \* self.pieces
  ext,                  \* extended_message_associtions
  events,               \* the observer calls made so far
  log,                  \* the logger's records
  results,              \* per file parsed: how parse_file's try block ended
  crashed               \* the exception that left parse_file, or "none"

vars == <<files, infos, fi, pc, n, current_infohash, current_peerid,
          current_pieces_size, pieces, ext, events, log, results, crashed>>

\* the exceptions parse_file catches: subclasses of BitTorrentParserError
BitTorrentParserErrors == {"UnexpectedEndOfStreamError", "InvalidBitTorrentStreamError"}

\* the state after main() has built the parser and read the torrent files
InitParser(batches, torrents) ==
  /\ files \in batches
  /\ infos \in torrents
  /\ fi = 1
  /\ pc = "file"
  /\ n = 0
  /\ current_infohash = <<>>
  /\ current_peerid = <<>>
  /\ current_pieces_size = 0
  /\ pieces = <<>>
  /\ ext = <<>>
  /\ events = <<>>
  /\ log = <<>>
  /\ results = <<>>
  /\ crashed = "none"

\* parse_file's except clause and its closing log line, then the next file
Caught(e, lg) ==
  /\ results' = Append(results, [exc |-> e, n |-> n', size |-> current_pieces_size'])
  /\ log' = lg \o <<[msg |-> "ERROR", exc |-> e, file |-> fi, off |-> n'],
                    [msg |-> "SUMMARY", size |-> current_pieces_size',
                     file |-> fi, off |-> n']>>
  /\ fi' = fi + 1
  /\ pc' = "file"
  /\ crashed' = crashed

\* parse_file up to its call of parse_stream
ParseFile ==
  /\ pc = "file"
  /\ fi <= Len(files)
  /\ current_pieces_size' = 0
  /\ log' = Append(log, [msg |-> "NEW FILE", file |-> fi, off |-> 0])
  /\ pc' = "stream"
  /\ UNCHANGED <<files, infos, fi, n, current_infohash, current_peerid, pieces,
                 ext, events, results, crashed>>

\* the test with the protocol string left unread
PstrlenMismatch(stream) == PyAt(stream, 0) # 19

\* if pstrlen != 19 or pstr != 'BitTorrent protocol'
PstrMismatch(stream) == PyAt(stream, 0) # 19 \/ PySlice(stream, 1, 20) # PSTR

\* parse_stream up to its loop: the 68-byte handshake
ParseStream ==
  /\ pc = "stream"
  /\ LET stream == files[fi]
     IN  IF Len(stream) < HandshakeLength
         THEN /\ n' = 0
              /\ UNCHANGED <<current_infohash, current_peerid, current_pieces_size>>
              /\ Caught("UnexpectedEndOfStreamError", log)
         ELSE /\ current_infohash' = PySlice(stream, 28, 48)
              /\ current_peerid' = PySlice(stream, 48, 68)
              /\ UNCHANGED current_pieces_size
              /\ IF PstrMismatch(stream)
                 THEN /\ n' = 0
                      /\ Caught("InvalidBitTorrentStreamError",
                                Append(log, [msg |-> "Stream does not contain BitTorrent data.",
                                             file |-> fi, off |-> 0]))
                 ELSE /\ n' = HandshakeLength
                      /\ pc' = "msg"
                      /\ log' = Append(log, [msg |-> "handshake",
                                             reserved |-> PySlice(stream, 20, 28),
                                             infohash |-> PySlice(stream, 28, 48),
                                             peerid |-> PySlice(stream, 48, 68),
                                             file |-> fi, off |-> 0])
                      /\ UNCHANGED <<fi, results, crashed>>
  /\ UNCHANGED <<files, infos, pieces, ext, events>>

\* one turn of parse_stream's loop: n = self.parse_message(stream, n)
ParseMessage ==
  /\ pc = "msg"
  /\ n < Len(files[fi])
  /\ \E r \in parse_message(
                [ext |-> ext, pieces |-> pieces, size |-> current_pieces_size,
                 events |-> events, log |-> log],
                [stream |-> files[fi], n |-> n, file |-> fi,
                 infohash |-> current_infohash, infos |-> infos]) :
       /\ ext' = r.p.ext
       /\ pieces' = r.p.pieces
       /\ current_pieces_size' = r.p.size
       /\ events' = r.p.events
       /\ n' = r.n
       /\ IF r.exc = "none"
          THEN /\ log' = r.p.log
               /\ UNCHANGED <<fi, pc, results, crashed>>
          ELSE IF r.exc \in BitTorrentParserErrors
          THEN Caught(r.exc, r.p.log)
          ELSE /\ log' = r.p.log
               /\ crashed' = r.exc
               /\ pc' = "aborted"
               /\ UNCHANGED <<fi, results>>
  /\ UNCHANGED <<files, infos, current_infohash, current_peerid>>

\* parse_stream's loop ends (n >= len(stream)); parse_file's closing log line
FinishFile ==
  /\ pc = "msg"
  /\ ~(n < Len(files[fi]))
  /\ results' = Append(results, [exc |-> "none", n |-> n, size |-> current_pieces_size])
  /\ log' = Append(log, [msg |-> "SUMMARY", size |-> current_pieces_size,
                         file |-> fi, off |-> n])
  /\ fi' = fi + 1
  /\ pc' = "file"
  /\ UNCHANGED <<files, infos, n, current_infohash, current_peerid,
                 current_pieces_size, pieces, ext, events, crashed>>

Next == ParseFile \/ ParseStream \/ ParseMessage \/ FinishFile

(***************************************************************************)
(* Inputs: the streams and torrent descriptors the parser is run on.       *)
(***************************************************************************)

\* at most this many messages follow the handshake of a framing stream
MaxMsgs == 2

\* a framing stream is cut short by up to this many bytes
MaxCut == 17

\* at most this many messages follow the handshake of an extension stream
MaxExtMsgs == 3

\* at most this many piece messages follow the handshake of a piece stream
MaxFrags == 3

\* the descriptor's 'piece length'
PieceLength == 4

RECURSIVE Concat(_)
Concat(ss) == IF ss = <<>> THEN <<>> ELSE Head(ss) \o Concat(Tail(ss))

\* the sequences of at most k elements of cat
SeqsUpTo(cat, k) == UNION {[1..j -> cat] : j \in 0..k}

BE32(v) == <<(v \div 16777216) % 256, (v \div 65536) % 256, (v \div 256) % 256, v % 256>>

\* a message on the wire: length prefix, ID byte, payload
Msg(id, payload) == BE32(1 + Len(payload)) \o <<id>> \o payload

\* an extended message: ID 20, sub-ID, payload
ExtMsg(sub, payload) == Msg(20, <<sub>> \o payload)

KeepAlive == <<0, 0, 0, 0>>

PeerId == [j \in 1..20 |-> 80]

\* an infohash no descriptor has
NoInfoHash == [j \in 1..20 |-> 0]

Handshake(infohash) == <<19>> \o PSTR \o [j \in 1..8 |-> 0] \o infohash \o PeerId

\* the two pieces of the torrent and its descriptor
PieceA == [j \in 1..PieceLength |-> j]

PieceB == [j \in 1..PieceLength |-> 10 + j]

Info1 == VDict(<<K_piece_length, K_pieces>>,
               <<VInt(PieceLength), VStr(Sha1(PieceA) \o Sha1(PieceB))>>)

InfoHash1 == Sha1(BEncode(Info1))

NoTorrents == <<>>

Torrents1 == add_info(NoTorrents, Info1)

Words3 == BE32(1) \o BE32(0) \o BE32(16)

FrameCatalog ==
  { KeepAlive,
    Msg(0, <<>>),                              \* choke
    Msg(4, BE32(3)),                           \* have 3
    Msg(4, BE32(7)),                           \* have 7
    Msg(5, <<170, 85, 1, 2, 3, 4>>),           \* bitfield of 6 bytes
    Msg(6, Words3),                            \* request
    Msg(16, Words3),                           \* reject
    Msg(17, BE32(5)),                          \* allowed_fast 5
    Msg(9, <<26, 225>>),                       \* port 6881
    Msg(10, <<>>),                             \* an ID with no handler
    Msg(4, <<>>),                              \* have without its index
    Msg(7, BE32(0) \o BE32(0) \o <<1, 2>>) }   \* piece 0, begin 0, 2 bytes

CutBy(s, k) == SubSeq(s, 1, Len(s) - k)

FrameStreams ==
  {CutBy(Handshake(NoInfoHash) \o Concat(ms), k) :
     ms \in SeqsUpTo(FrameCatalog, MaxMsgs), k \in 0..MaxCut}

\* the stream that follows in the batch
SecondStream == Handshake(NoInfoHash) \o Msg(4, BE32(7))

FrameBatches == {<<s, SecondStream>> : s \in FrameStreams}

InitFrame == InitParser(FrameBatches, {NoTorrents})

\* batches of framing streams (static messages, keep-alives, truncations)
SpecFrame == InitFrame /\ [][Next]_vars

\* the bencoded extended handshake {'m': {names[j]: numbers[j]}}
HandshakePayload(names, numbers) ==
  BEncode(VDict(<<K_m>>, <<VDict(names, [j \in 1..Len(numbers) |-> VInt(numbers[j])])>>))

\* a ut_pex payload: 2 IPv4 peers added (the first prefers encryption and is a
\* seeder), 1 dropped; 1 IPv6 peer added (a seeder), none dropped
PexDict ==
  VDict(<<K_added, K_added_f, K_dropped, K_added6, K_added6_f, K_dropped6>>,
        <<VStr([j \in 1..12 |-> 10]), VStr(<<3, 0>>), VStr([j \in 1..6 |-> 11]),
          VStr([j \in 1..18 |-> 12]), VStr(<<2>>), VStr(<<>>)>>)

RegUpload == ExtMsg(0, HandshakePayload(<<N_upload_only>>, <<3>>))

DisableUpload == ExtMsg(0, HandshakePayload(<<N_upload_only>>, <<0>>))

UseUpload == ExtMsg(3, <<1>>)

RegPex == ExtMsg(0, HandshakePayload(<<N_ut_pex>>, <<5>>))

UsePex == ExtMsg(5, BEncode(PexDict))

\* two names under one number: the table keeps the one items() yields last
RegBoth == ExtMsg(0, HandshakePayload(<<N_ut_pex, N_upload_only>>, <<3, 3>>))

ExtCatalog == {RegUpload, DisableUpload, UseUpload, RegPex, UsePex, RegBoth}

ExtStreams ==
  {Handshake(NoInfoHash) \o Concat(ms) : ms \in SeqsUpTo(ExtCatalog, MaxExtMsgs)}

\* the streams that follow in the batch: extended messages and no handshake
ExtSecondStreams == {Handshake(NoInfoHash) \o m : m \in {UseUpload, UsePex}}

ExtBatches == {<<s, t>> : s \in ExtStreams, t \in ExtSecondStreams}

InitExt == InitParser(ExtBatches, {NoTorrents})

\* batches of two streams of extended messages
SpecExt == InitExt /\ [][Next]_vars

\* a piece message
PieceMsg(fr) == Msg(7, BE32(fr.index) \o BE32(fr.begin) \o fr.data)

Fragment(index, begin, data) == [index |-> index, begin |-> begin, data |-> data]

FragCatalog ==
  { Fragment(0, 0, PySlice(PieceA, 0, 2)),               \* the first 2 bytes
    Fragment(0, 2, PySlice(PieceA, 2, PieceLength)),     \* the rest from 2
    Fragment(0, 2, [j \in 1..(PieceLength - 2) |-> 99]), \* other bytes at 2
    Fragment(0, 0, PieceA),                              \* the whole piece
    Fragment(0, 0, PySlice(PieceA, 0, 3)),               \* the first 3 bytes
    Fragment(0, 1, PySlice(PieceA, 1, 3)),               \* bytes 1 and 2
    Fragment(1, 0, PieceB),                              \* the whole piece 1
    Fragment(1, 0, PieceA),                              \* piece 0's bytes as piece 1
    Fragment(2, 0, PieceA) }                             \* a piece with no hash

PieceStreams ==
  {Handshake(ih) \o Concat([j \in 1..Len(frs) |-> PieceMsg(frs[j])]) :
     frs \in SeqsUpTo(FragCatalog, MaxFrags), ih \in {InfoHash1, NoInfoHash}}

PieceBatches == {<<s>> : s \in PieceStreams}

InitPiece == InitParser(PieceBatches, {Torrents1})

\* one stream of piece messages, parsed with the torrent's descriptor loaded
SpecPiece == InitPiece /\ [][Next]_vars

\* "BitTorrent Protocol": the protocol string with a capital P
PSTR_CapitalP == [PSTR EXCEPT ![12] = 80]

\* an infohash of another torrent no descriptor has
OtherInfoHash == [j \in 1..20 |-> 7]

\* the first 68 bytes (or fewer) a stream starts with
HeadCatalog ==
  { Handshake(NoInfoHash),
    Handshake(OtherInfoHash),
    <<18>> \o Tail(Handshake(OtherInfoHash)),                           \* pstrlen 18
    <<19>> \o PSTR_CapitalP \o SubSeq(Handshake(OtherInfoHash), 21, 68), \* wrong case
    <<18>> \o PSTR_CapitalP \o SubSeq(Handshake(OtherInfoHash), 21, 68), \* both
    SubSeq(Handshake(OtherInfoHash), 1, 67),                            \* one byte short
    SubSeq(<<18>> \o Handshake(OtherInfoHash), 1, 30),                  \* short and wrong
    <<>> }                                                              \* empty file

\* what follows the head
TailCatalog == {<<>>, Msg(0, <<>>), Msg(4, BE32(3)), Msg(4, BE32(3)) \o KeepAlive \o Msg(1, <<>>)}

ShakeStreams == {h \o t : h \in HeadCatalog, t \in TailCatalog}

ShakeBatches == {<<a, b>> : a, b \in ShakeStreams}

InitShake == InitParser(ShakeBatches, {NoTorrents})

\* batches of two streams with good and bad handshakes
SpecShake == InitShake /\ [][Next]_vars

\* at most this many piece messages follow the handshake of each stream of a
\* batch of piece streams
MaxBatchFrags == 2

\* the fragments of the streams of a batch: the two halves of piece 0 and the
\* whole of piece 1
BatchFragCatalog ==
  { Fragment(0, 0, PySlice(PieceA, 0, 2)),
    Fragment(0, 2, PySlice(PieceA, 2, PieceLength)),
    Fragment(1, 0, PieceB) }

PieceBatchStreams ==
  {Handshake(InfoHash1) \o Concat([j \in 1..Len(frs) |-> PieceMsg(frs[j])]) :
     frs \in SeqsUpTo(BatchFragCatalog, MaxBatchFrags)}

PiecePairs == {<<a, b>> : a, b \in PieceBatchStreams}

InitPiecePairs == InitParser(PiecePairs, {Torrents1})

\* batches of two streams of piece messages of the same torrent
SpecPiecePairs == InitPiecePairs /\ [][Next]_vars

\* extended messages with payloads bencode cannot decode, and the handshake
\* that maps the three bencoded extensions
CodecCatalog ==
  { ExtMsg(0, HandshakePayload(<<N_ut_metadata, N_lt_tex, N_ut_pex>>, <<1, 2, 5>>)),
    ExtMsg(0, <<100, 49, 58, 109>>),   \* handshake "d1:m": a dict cut short
    ExtMsg(1, <<105, 49>>),            \* ut_metadata "i1": an integer with no end
    ExtMsg(2, <<120>>),                \* lt_tex "x": no bencoded value
    ExtMsg(5, <<100, 101, 101>>),      \* ut_pex "dee": data after the value
    UsePex }

CodecBatches ==
  {<<Handshake(NoInfoHash) \o Concat(ms), SecondStream>> :
     ms \in SeqsUpTo(CodecCatalog, MaxExtMsgs)}

InitCodec == InitParser(CodecBatches, {NoTorrents})

\* batches whose first stream holds undecodable bencoded payloads
SpecCodec == InitCodec /\ [][Next]_vars

\* handshakes that install and disable, extended messages with a nonzero
\* sub-ID, a keep-alive, a static message and an ID with no handler
TableCatalog ==
  {RegUpload, DisableUpload, UseUpload, UsePex, KeepAlive, Msg(0, <<>>), Msg(10, <<>>)}

TableBatches ==
  {<<Handshake(NoInfoHash) \o Concat(ms)>> : ms \in SeqsUpTo(TableCatalog, MaxExtMsgs)}

InitTable == InitParser(TableBatches, {NoTorrents})

\* one stream mixing extended handshakes with every other kind of message
SpecTable == InitTable /\ [][Next]_vars

\* one stream of up to MaxExtMsgs messages out of: a handshake whose dict has
\* no 'm' ("de"), the ut_pex registration, a ut_pex payload with 'added'
\* alone, an ID with no handler, and choke
UnknownBatches ==
  {<<Handshake(NoInfoHash) \o Concat(ms)>> :
     ms \in SeqsUpTo({ExtMsg(0, <<100, 101>>), RegPex,
                      ExtMsg(5, BEncode(VDict(<<K_added>>, <<VStr(<<>>)>>))),
                      Msg(10, <<>>), Msg(0, <<>>)},
                     MaxExtMsgs)}

InitUnknown == InitParser(UnknownBatches, {NoTorrents})

\* streams whose registered handlers fail on a missing dict key
SpecUnknown == InitUnknown /\ [][Next]_vars

(***************************************************************************)
(* The wire format, read off the stream itself (section 3 of the           *)
(* specification): the claims are stated against it.                       *)
(***************************************************************************)

\* the declared length of the message at offset o (its 4 bytes are there)
DeclaredLength(s, o) == U32(PySlice(s, o, o + 4))

IsKeepAliveAt(s, o) == o + 4 <= Len(s) /\ DeclaredLength(s, o) = 0

\* the message at offset o is cut short: the buffer ends inside it
TruncatedAt(s, o) ==
  /\ o < Len(s)
  /\ \/ Len(s) < o + 4
     \/ DeclaredLength(s, o) > 0 /\ Len(s) < o + 4 + DeclaredLength(s, o)

\* the offsets of the complete messages of s from offset o on, in order
RECURSIVE MessageOffsets(_, _)
MessageOffsets(s, o) ==
  IF ~(o + 4 <= Len(s)) \/ Len(s) < o + 4 + DeclaredLength(s, o) THEN <<>>
  ELSE <<o>> \o MessageOffsets(s, o + 4 + DeclaredLength(s, o))

\* the ID byte of the (non-keep-alive) message at offset o
IdAt(s, o) == PyAt(s, o + 4)

\* the bytes of the message at offset o after its ID byte
PayloadAt(s, o) == PySlice(s, o + 5, o + 4 + DeclaredLength(s, o))

StaticIds == {0, 1, 2, 3, 4, 5, 6, 7, 8, 9, 13, 14, 15, 16, 17}

\* the event section 4.3 gives the message at offset o: its name and fields
ExpectedEvent(s, o) ==
  LET id == IdAt(s, o)
      pl == PayloadAt(s, o)
      w1 == U32(PySlice(pl, 0, 4))
      w2 == U32(PySlice(pl, 4, 8))
      w3 == U32(PySlice(pl, 8, 12))
  IN  CASE id = 0 -> [name |-> "choke", attrs |-> <<>>]
        [] id = 1 -> [name |-> "unchoke", attrs |-> <<>>]
        [] id = 2 -> [name |-> "interested", attrs |-> <<>>]
        [] id = 3 -> [name |-> "not_interested", attrs |-> <<>>]
        [] id = 4 -> [name |-> "have", attrs |-> [index |-> w1]]
        [] id = 5 -> [name |-> "bitfield", attrs |-> [bitfield |-> pl]]
        [] id = 6 -> [name |-> "request",
                      attrs |-> [index |-> w1, begin |-> w2, length |-> w3]]
        [] id = 7 -> [name |-> "piece",
                      attrs |-> [index |-> w1, begin |-> w2,
                                 data |-> PySlice(pl, 8, Len(pl))]]
        [] id = 8 -> [name |-> "cancel",
                      attrs |-> [index |-> w1, begin |-> w2, length |-> w3]]
        [] id = 9 -> [name |-> "port", attrs |-> [port |-> U16(PySlice(pl, 0, 2))]]
        [] id = 13 -> [name |-> "suggest_piece", attrs |-> [index |-> w1]]
        [] id = 14 -> [name |-> "have_all", attrs |-> <<>>]
        [] id = 15 -> [name |-> "have_none", attrs |-> <<>>]
        [] id = 16 -> [name |-> "reject",
                       attrs |-> [index |-> w1, begin |-> w2, length |-> w3]]
        [] OTHER -> [name |-> "allowed_fast", attrs |-> [index |-> w1]]

\* the payload length the fixed layout of a static message asks for
LayoutOk(s, o) ==
  LET id == IdAt(s, o)
      k == Len(PayloadAt(s, o))
  IN  /\ id \in StaticIds
      /\ id \in {0, 1, 2, 3, 14, 15} => k = 0
      /\ id \in {4, 13, 17} => k = 4
      /\ id \in {6, 8, 16} => k = 12
      /\ id = 7 => k >= 8
      /\ id = 9 => k = 2

\* s is a handshake followed by complete keep-alives and static messages only
WellFormedStatic(s) ==
  /\ Len(s) >= HandshakeLength
  /\ PySlice(s, 0, 20) = <<19>> \o PSTR
  /\ LET offs == MessageOffsets(s, HandshakeLength)
     IN  /\ \A j \in 1..Len(offs) : IsKeepAliveAt(s, offs[j]) \/ LayoutOk(s, offs[j])
         /\ IF offs = <<>> THEN Len(s) = HandshakeLength
            ELSE Len(s) = offs[Len(offs)] + 4 + DeclaredLength(s, offs[Len(offs)])

\* the new_message calls made while file f was parsed, in order
NewMessageEvents(f) ==
  SelectSeq(events, LAMBDA e : e.file = f /\ e.cb = "new_message")

\* the offsets of the messages of s that are no keep-alives
NonKeepAlive(s) ==
  SelectSeq(MessageOffsets(s, HandshakeLength), LAMBDA o : ~IsKeepAliveAt(s, o))

(***************************************************************************)
(* Claims checked on batches of framing streams (SpecFrame).               *)
(***************************************************************************)

\* C3: a keep-alive (L = 0) at any position after the handshake, the last 4
\* bytes of the buffer included, moves the framer on by exactly 4 bytes,
\* emits no observer event and raises no error.
C3_KeepAliveConsumesFour ==
  [][(pc = "msg" /\ n < Len(files[fi]) /\ IsKeepAliveAt(files[fi], n))
       => (/\ n' = n + 4
           /\ pc' = "msg"
           /\ events' = events
           /\ results' = results
           /\ crashed' = "none")]_vars

\* C4: when the buffer ends inside the message at offset n (n < t < n+4+L),
\* parse_stream fails with UnexpectedEndOfStream at that message and emits no
\* event for it; the events of the earlier messages stay as they were.
C4_TruncationIsUnexpectedEnd ==
  [][(pc = "msg" /\ TruncatedAt(files[fi], n))
       => (/\ results' = Append(results, [exc |-> "UnexpectedEndOfStreamError",
                                          n |-> n, size |-> current_pieces_size])
           /\ events' = events
           /\ crashed' = "none")]_vars

\* C4's case: a stream failed with UnexpectedEndOfStream at a message whose
\* length prefix and ID were there and whose body was cut, after an earlier
\* message of the same stream had produced its event.
C4_Witness ==
  \E f \in 1..Len(results) :
    /\ results[f].exc = "UnexpectedEndOfStreamError"
    /\ results[f].n > HandshakeLength
    /\ Len(files[f]) > results[f].n + 4
    /\ TruncatedAt(files[f], results[f].n)
    /\ \E j \in 1..Len(events) : events[j].file = f /\ events[j].off < results[f].n

\* C5: whatever a stream holds, a failure while it is decoded is caught at
\* parse_file and the batch goes on: no exception leaves parse_file.
C5_NoFailureEscapes == crashed = "none" /\ pc # "aborted"

\* C9: for a well-formed stream parsed to its end, the new_message events are
\* exactly the events of its non-keep-alive messages with a static ID, in
\* stream order, each with the message's name and all of its decoded fields.
C9_StaticMessageEvents ==
  \A f \in 1..Len(results) :
    (results[f].exc = "none" /\ WellFormedStatic(files[f]))
      => LET evs == NewMessageEvents(f)
             offs == NonKeepAlive(files[f])
         IN  /\ Len(evs) = Len(offs)
             /\ \A j \in 1..Len(offs) :
                  /\ evs[j].off = offs[j]
                  /\ evs[j].name = ExpectedEvent(files[f], offs[j]).name
                  /\ DOMAIN evs[j].attrs = DOMAIN ExpectedEvent(files[f], offs[j]).attrs
                  /\ evs[j].attrs = ExpectedEvent(files[f], offs[j]).attrs

(***************************************************************************)
(* Claims checked on batches of extension streams (SpecExt).               *)
(***************************************************************************)

\* the message at offset o of s is an extended message (ID 20) with a sub-ID
IsExtendedAt(s, o) ==
  o + 6 <= Len(s) /\ DeclaredLength(s, o) >= 2 /\ IdAt(s, o) = 20

SubIdAt(s, o) == PyAt(s, o + 5)

\* the payload of the extended message at offset o, after its sub-ID
ExtPayloadAt(s, o) == PySlice(s, o + 6, o + 4 + DeclaredLength(s, o))

\* the message at offset o is an extended handshake with a decodable m dict
IsHandshakeAt(s, o) ==
  /\ IsExtendedAt(s, o)
  /\ SubIdAt(s, o) = 0
  /\ BDecode(ExtPayloadAt(s, o)).ok
  /\ BDecode(ExtPayloadAt(s, o)).val.t = "dict"
  /\ DictHas(BDecode(ExtPayloadAt(s, o)).val, K_m)
  /\ DictGet(BDecode(ExtPayloadAt(s, o)).val, K_m).t = "dict"

MDictAt(s, o) == DictGet(BDecode(ExtPayloadAt(s, o)).val, K_m)

\* the handshake at offset o maps name to the number k
HandshakeMaps(s, o, name, k) ==
  /\ IsHandshakeAt(s, o)
  /\ DictHas(MDictAt(s, o), name)
  /\ DictGet(MDictAt(s, o), name) = VInt(k)

\* the names the handshake at offset o maps to the number k
NamesMappedTo(s, o, k) ==
  IF ~IsHandshakeAt(s, o) THEN {}
  ELSE {MDictAt(s, o).keys[j] : j \in {h \in 1..Len(MDictAt(s, o).keys) :
                                         MDictAt(s, o).kids[h] = VInt(k)}}

\* the offsets of the messages of s that start before offset o
OffsetsBefore(s, o) ==
  {MessageOffsets(s, HandshakeLength)[j] :
     j \in {h \in 1..Len(MessageOffsets(s, HandshakeLength)) :
              MessageOffsets(s, HandshakeLength)[h] < o}}

\* before offset o of s, a handshake mapped a name to k and a later one mapped
\* that name to 0, and no handshake after the first one installed k again
DisabledBefore(s, o, k) ==
  \E a, b \in OffsetsBefore(s, o) :
    /\ a < b
    /\ \E name \in NamesMappedTo(s, a, k) : HandshakeMaps(s, b, name, 0)
    /\ \A d \in OffsetsBefore(s, o) : d > a => NamesMappedTo(s, d, k) = {}

\* before offset o of s, a handshake of s registered the sub-ID k
RegisteredBefore(s, o, k) ==
  \E a \in OffsetsBefore(s, o) : NamesMappedTo(s, a, k) # {}

\* C1: within one stream (the first of the batch, whose table starts empty),
\* once a handshake has mapped a name to k and a later one has mapped it to 0,
\* k is unmapped in the ExtensionTable, and an extended message with sub-ID k
\* is treated as unknown: it makes no observer call.
C1_DisabledIsUnmapped ==
  /\ (pc = "msg" /\ fi = 1)
       => \A v \in DOMAIN ext : v.t = "int" => ~DisabledBefore(files[1], n, v.i)
  /\ \A j \in 1..Len(events) :
       (events[j].file = 1 /\ IsExtendedAt(files[1], events[j].off))
         => ~DisabledBefore(files[1], events[j].off, SubIdAt(files[1], events[j].off))

\* C2: the ExtensionTable is the stream's own: it is empty when a stream
\* starts, and an extended message with a nonzero sub-ID k makes an observer
\* call only if a handshake of the same stream registered k before it.
C2_TablePerStream ==
  /\ pc = "stream" => DOMAIN ext = {}
  /\ \A j \in 1..Len(events) :
       LET s == files[events[j].file]
           o == events[j].off
       IN  (IsExtendedAt(s, o) /\ SubIdAt(s, o) # 0)
             => RegisteredBefore(s, o, SubIdAt(s, o))

\* the bytes of flags with the bit `bit` (0 or 1) set
FlagCount(flags, bit) ==
  Cardinality({j \in 1..Len(flags) : (flags[j] \div (IF bit = 0 THEN 1 ELSE 2)) % 2 = 1})

\* C10: the ut_pex decoder reports len(added)/6 peers added, len(dropped)/6
\* dropped, as many preferring encryption as added.f has bytes with bit 0 set
\* and as many seeders as it has bytes with bit 1 set; likewise with 18-byte
\* entries and added6.f for IPv6.
C10_PexCounts ==
  \A j \in 1..Len(log) :
    /\ log[j].msg = "ut_pex" =>
         LET m == BDecode(ExtPayloadAt(files[log[j].file], log[j].off)).val
         IN  /\ log[j].added = Len(DictGet(m, K_added).s) \div 6
             /\ log[j].dropped = Len(DictGet(m, K_dropped).s) \div 6
             /\ log[j].prefer_encryption = FlagCount(DictGet(m, K_added_f).s, 0)
             /\ log[j].seeders = FlagCount(DictGet(m, K_added_f).s, 1)
    /\ log[j].msg = "ut_pex6" =>
         LET m == BDecode(ExtPayloadAt(files[log[j].file], log[j].off)).val
         IN  /\ log[j].added = Len(DictGet(m, K_added6).s) \div 18
             /\ log[j].dropped = Len(DictGet(m, K_dropped6).s) \div 18
             /\ log[j].prefer_encryption = FlagCount(DictGet(m, K_added6_f).s, 0)
             /\ log[j].seeders = FlagCount(DictGet(m, K_added6_f).s, 1)

(***************************************************************************)
(* Claims checked on streams of piece messages (SpecPiece).                *)
(***************************************************************************)

\* the infohash of the handshake of file f
InfoHashOf(f) == PySlice(files[f], 28, 48)

\* the fragments the piece messages of s carry, in stream order
Fragments(s) ==
  LET offs == SelectSeq(NonKeepAlive(s), LAMBDA o : IdAt(s, o) = 7)
  IN  [j \in 1..Len(offs) |-> ExpectedEvent(s, offs[j]).attrs]

\* the completion records of a log: "Piece complete" and the hash outcomes
Completions(lg) ==
  LET sel == SelectSeq(lg, LAMBDA l : l.msg \in {"Piece complete", "Hash match",
                                                 "Hash did not match"})
  IN  [j \in 1..Len(sel) |-> [msg |-> sel[j].msg, index |-> sel[j].index,
                              piece |-> sel[j].piece]]

\* a parser that has received the fragments frs, in this order, on a stream
\* with infohash ih
RECURSIVE Delivered(_, _)
Delivered(frs, ih) ==
  IF frs = <<>>
  THEN [ext |-> <<>>, pieces |-> <<>>, size |-> 0, events |-> <<>>, log |-> <<>>]
  ELSE new_message(Delivered(SubSeq(frs, 1, Len(frs) - 1), ih),
                   [stream |-> <<>>, n |-> 0, file |-> 1, infohash |-> ih,
                    infos |-> infos],
                   "piece", frs[Len(frs)]).p

\* every arrival order of the fragments of file 1 ends with the completion
\* records the run has logged
SameInEveryOrder ==
  LET frs == Fragments(files[1])
  IN  \A o \in ItemOrders(Len(frs)) :
        Completions(Delivered([j \in 1..Len(frs) |-> frs[o[j]]], InfoHashOf(1)).log)
          = Completions(log)

\* file 1 is parsed to its end, its infohash has a descriptor and its
\* fragments are all of one piece
OneKeyDelivered ==
  /\ Len(results) >= 1
  /\ results[1].exc = "none"
  /\ InfoHashOf(1) \in DOMAIN infos
  /\ \A j, h \in 1..Len(Fragments(files[1])) :
       Fragments(files[1])[j].index = Fragments(files[1])[h].index

DistinctOffsets ==
  \A j, h \in 1..Len(Fragments(files[1])) :
    j # h => Fragments(files[1])[j].begin # Fragments(files[1])[h].begin

\* C6 as claimed: for every multiset of fragments of one key with a
\* descriptor, every two arrival orders produce the same completion events,
\* from the same piece bytes, with the same hash outcome.
C6_OrderIndependent == OneKeyDelivered => SameInEveryOrder

\* C6 as amended: the same, for fragments no two of which share an offset.
C6_OrderIndependentDistinctOffsets ==
  (OneKeyDelivered /\ DistinctOffsets) => SameInEveryOrder

\* C6's case: fragments at distinct offsets arrived out of offset order and
\* the piece completed.
C6_Witness ==
  /\ OneKeyDelivered
  /\ DistinctOffsets
  /\ Len(Fragments(files[1])) >= 2
  /\ Fragments(files[1])[1].begin > Fragments(files[1])[2].begin
  /\ \E j \in 1..Len(log) : log[j].msg = "Hash match"

\* the fragments of piece i agree wherever two of them overlap
AgreeOnOverlap(frs, i) ==
  \A j, h \in 1..Len(frs) :
    (frs[j].index = i /\ frs[h].index = i)
      => \A x \in 0..(PieceLength - 1) :
           (/\ frs[j].begin <= x /\ x < frs[j].begin + Len(frs[j].data)
            /\ frs[h].begin <= x /\ x < frs[h].begin + Len(frs[h].data))
             => frs[j].data[x - frs[j].begin + 1] = frs[h].data[x - frs[h].begin + 1]

\* the fragments of piece i cover every byte of [0, piece_length)
Covers(frs, i) ==
  \A x \in 0..(PieceLength - 1) :
    \E j \in 1..Len(frs) :
      frs[j].index = i /\ frs[j].begin <= x /\ x < frs[j].begin + Len(frs[j].data)

\* C7: when the fragments received for a key with a descriptor agree on their
\* overlapping bytes and jointly cover [0, piece_length), the piece has been
\* detected complete, with exactly piece_length bytes, and hash-verified.
C7_CoveredIsComplete ==
  (Len(results) >= 1 /\ results[1].exc = "none" /\ InfoHashOf(1) \in DOMAIN infos)
    => \A i \in 0..2 :
         (AgreeOnOverlap(Fragments(files[1]), i) /\ Covers(Fragments(files[1]), i))
           => \E j \in 1..(Len(log) - 1) :
                /\ log[j].msg = "Piece complete"
                /\ log[j].index = i
                /\ Len(log[j].piece) = PieceLength
                /\ log[j + 1].msg \in {"Hash match", "Hash did not match"}

\* the hash the descriptor of file f stores for piece i, if all 20 bytes of
\* it are there
HasStoredHash(f, i) == (i + 1) * 20 <= Len(DictGet(infos[InfoHashOf(f)], K_pieces).s)

StoredHash(f, i) == SubSeq(DictGet(infos[InfoHashOf(f)], K_pieces).s, i * 20 + 1, i * 20 + 20)

IsOutcome(l) == l.msg \in {"Hash match", "Hash did not match"}

\* C8: every completion logs exactly one outcome, and it is "match" exactly
\* when the SHA-1 of the reconstructed piece_length bytes is the 20-byte slice
\* expected[i*20 : i*20+20] of the descriptor; a missing or short slice is a
\* mismatch.
C8_HashVerificationExact ==
  \A j \in 1..Len(log) :
    /\ log[j].msg = "Piece complete"
         => /\ j < Len(log)
            /\ IsOutcome(log[j + 1])
            /\ log[j + 1].index = log[j].index
            /\ log[j + 1].off = log[j].off
            /\ Len(log[j].piece) = DictGet(infos[InfoHashOf(log[j].file)], K_piece_length).i
            /\ (log[j + 1].msg = "Hash match")
                 <=> (/\ HasStoredHash(log[j].file, log[j].index)
                      /\ Sha1(log[j].piece) = StoredHash(log[j].file, log[j].index))
    /\ IsOutcome(log[j]) => (j > 1 /\ log[j - 1].msg = "Piece complete")

\* C8's case: one piece matched its stored hash, another did not, and a piece
\* completed whose index has no stored hash.
C8_Witness ==
  /\ \E j \in 1..Len(log) : log[j].msg = "Hash match" /\ log[j].index = 1
  /\ \E j \in 1..Len(log) :
       /\ log[j].msg = "Hash did not match"
       /\ HasStoredHash(log[j].file, log[j].index)
  /\ \E j \in 1..Len(log) :
       /\ log[j].msg = "Hash did not match"
       /\ ~HasStoredHash(log[j].file, log[j].index)

(***************************************************************************)
(* Claims checked on streams with good and bad handshakes (SpecShake).     *)
(***************************************************************************)

\* the stream of file f is shorter than a handshake
TooShort(f) == Len(files[f]) < 68

\* the stream of file f has 68 bytes and its first byte is not 19 or its next
\* 19 bytes are not "BitTorrent protocol"
NotBitTorrent(f) ==
  /\ Len(files[f]) >= 68
  /\ \/ files[f][1] # 19
     \/ SubSeq(files[f], 2, 20) # PSTR

\* the step that rejects the current file with exception e: framing does not
\* start and no observer event is emitted
RejectedWith(e) ==
  /\ Len(results') = Len(results) + 1
  /\ results'[Len(results')].exc = e
  /\ pc' # "msg"
  /\ fi' = fi + 1
  /\ events' = events
  /\ ext' = ext
  /\ pieces' = pieces

\* C11: a buffer shorter than 68 bytes fails with UnexpectedEndOfStream before
\* any handshake field is read; a buffer of at least 68 bytes whose first byte
\* is not 19 or whose next 19 bytes are not "BitTorrent protocol" fails with
\* InvalidStream; in both cases framing never starts and no event is emitted.
C11_HandshakeRejection ==
  /\ [][(pc = "stream" /\ TooShort(fi))
          => /\ RejectedWith("UnexpectedEndOfStreamError")
             /\ current_infohash' = current_infohash
             /\ current_peerid' = current_peerid]_vars
  /\ [][(pc = "stream" /\ NotBitTorrent(fi))
          => RejectedWith("InvalidBitTorrentStreamError")]_vars
  /\ [](\A j \in 1..Len(events) :
          ~TooShort(events[j].file) /\ ~NotBitTorrent(events[j].file))

\* C11's case: a valid first stream set the session's infohash, and the second
\* stream, with "BitTorrent Protocol" in its handshake and a message after
\* it, has been rejected.
C11_Witness ==
  /\ Len(results) = 2
  /\ results[1].exc = "none"
  /\ Len(events) >= 1
  /\ Len(files[2]) > 68
  /\ files[2][1] = 19
  /\ SubSeq(files[2], 2, 20) = PSTR_CapitalP
  /\ results[2].exc = "InvalidBitTorrentStreamError"

(***************************************************************************)
(* Claims checked on batches of two piece streams (SpecPiecePairs).        *)
(***************************************************************************)

\* the records of the log made while file f was parsed
LogOf(f) == SelectSeq(log, LAMBDA l : l.file = f)

\* C12: piece fragments accumulated while one stream is decoded never
\* contribute to, or trigger, the completion of a piece while a later stream
\* is decoded: the completions logged for a stream are those its own
\* fragments produce.
C12_StateOwnedByStream ==
  \A f \in 1..Len(results) :
    results[f].exc = "none"
      => Completions(LogOf(f))
           = Completions(Delivered(Fragments(files[f]), InfoHashOf(f)).log)

(***************************************************************************)
(* Claims checked on batches of extension streams (SpecExt), continued.    *)
(***************************************************************************)

\* the message at offset n of the current stream is a complete extended
\* message whose nonzero sub-ID is no key of the ExtensionTable
UnmappedExtendedNext ==
  /\ pc = "msg"
  /\ n < Len(files[fi])
  /\ ~TruncatedAt(files[fi], n)
  /\ IsExtendedAt(files[fi], n)
  /\ SubIdAt(files[fi], n) # 0
  /\ VInt(SubIdAt(files[fi], n)) \notin DOMAIN ext

\* C13: an extended message whose nonzero sub-ID has no entry in the
\* ExtensionTable emits no new_message and no new_extended_message event,
\* raises no error, and framing continues at offset n + 4 + L.
C13_UnmappedSubIdSilent ==
  [][UnmappedExtendedNext
       => /\ events' = events
          /\ n' = n + 4 + DeclaredLength(files[fi], n)
          /\ pc' = "msg"
          /\ fi' = fi
          /\ results' = results
          /\ crashed' = crashed
          /\ ext' = ext]_vars

\* C13's case: an extended message was found unmapped, and a later message of
\* the same stream made an observer call.
C13_Witness ==
  \E j \in 1..Len(log) :
    /\ log[j].msg = "EXTENDED UNKNOWN MESSAGE ID"
    /\ \E h \in 1..Len(events) :
         events[h].file = log[j].file /\ events[h].off > log[j].off

\* C14: every extended handshake (ID 20, sub-ID 0, a decodable payload) makes
\* an observer call for the handshake, besides updating the ExtensionTable.
C14_HandshakeObserved ==
  [][(/\ pc = "msg"
      /\ n < Len(files[fi])
      /\ ~TruncatedAt(files[fi], n)
      /\ IsHandshakeAt(files[fi], n))
       => \E j \in (Len(events) + 1)..Len(events') :
            events'[j].file = fi /\ events'[j].off = n]_vars

(***************************************************************************)
(* Claims checked on streams of piece messages (SpecPiece), continued.     *)
(***************************************************************************)

\* the message at offset n of the current stream is a complete piece message
\* and the stream's infohash has a descriptor
PieceNext ==
  /\ pc = "msg"
  /\ n < Len(files[fi])
  /\ ~TruncatedAt(files[fi], n)
  /\ ~IsKeepAliveAt(files[fi], n)
  /\ IdAt(files[fi], n) = 7
  /\ LayoutOk(files[fi], n)
  /\ current_infohash \in DOMAIN infos

\* the entry of key k, empty when there is none
EntryOf(pcs, k) == IF k \in DOMAIN pcs THEN pcs[k] ELSE <<>>

\* the offset the fragments frs (pairs <<data, begin>>) reach when read
\* greedily from the cursor on: at each cursor the first fragment that
\* starts there
RECURSIVE GreedyEnd(_, _, _)
GreedyEnd(frs, cursor, piece_length) ==
  IF cursor >= piece_length \/ ~\E j \in 1..Len(frs) : frs[j][2] = cursor
  THEN cursor
  ELSE LET j == CHOOSE j \in 1..Len(frs) :
                  frs[j][2] = cursor /\ \A h \in 1..(j - 1) : frs[h][2] # cursor
       IN  IF frs[j][1] = <<>> THEN cursor
           ELSE GreedyEnd(frs, cursor + Len(frs[j][1]), piece_length)

\* the sequences a and b hold the same elements, each as many times
SameFragments(a, b) ==
  /\ Len(a) = Len(b)
  /\ \A x \in {a[j] : j \in 1..Len(a)} :
       Cardinality({j \in 1..Len(a) : a[j] = x})
         = Cardinality({j \in 1..Len(b) : b[j] = x})

\* what a piece event with fragment fr leaves of the entry of key
LifecycleStep(key, fr, piece_length) ==
  /\ IF GreedyEnd(Append(EntryOf(pieces, key), <<fr.data, fr.begin>>), 0, piece_length)
          = piece_length
     THEN key \notin DOMAIN pieces'
     ELSE /\ key \in DOMAIN pieces'
          /\ SameFragments(pieces'[key],
                           Append(EntryOf(pieces, key), <<fr.data, fr.begin>>))
  /\ \A k \in DOMAIN pieces \ {key} : k \in DOMAIN pieces' /\ pieces'[k] = pieces[k]

\* C15: after every piece event for a key with a descriptor, either the
\* fragments read greedily from offset 0 sum to exactly piece_length and the
\* entry is deleted, or the entry is present and holds every fragment
\* received for the key since its creation, duplicates and fragments beyond
\* a gap included; the other entries are untouched.
C15_EntryLifecycle ==
  [][PieceNext
       => LifecycleStep(<<current_infohash, ExpectedEvent(files[fi], n).attrs.index>>,
                        ExpectedEvent(files[fi], n).attrs,
                        DictGet(infos[current_infohash], K_piece_length).i)]_vars

\* C15's case: an entry left in place holds three fragments, two of them at
\* one offset and none at offset 0.
C15_Witness ==
  /\ current_infohash \in DOMAIN infos
  /\ \E k \in DOMAIN pieces :
       /\ k[1] = current_infohash
       /\ Len(pieces[k]) = 3
       /\ \E j, h \in 1..3 : j # h /\ pieces[k][j][2] = pieces[k][h][2]
       /\ \A j \in 1..3 : pieces[k][j][2] # 0

\* C15's other case: a piece completed and its entry is gone, while the entry
\* of another piece stays.
C15_WitnessDeleted ==
  /\ \E j \in 1..Len(log) : log[j].msg = "Piece complete" /\ log[j].index = 1
  /\ <<current_infohash, 1>> \notin DOMAIN pieces
  /\ <<current_infohash, 0>> \in DOMAIN pieces

(***************************************************************************)
(* Claims checked on batches of framing streams (SpecFrame), continued.    *)
(***************************************************************************)

\* C16: the event of every bitfield message (ID 5) of declared length L
\* carries exactly the L - 1 payload bytes after the ID byte, the bytes at
\* offsets [n + 5, n + 4 + L) of the stream.
C16_BitfieldPayload ==
  \A j \in 1..Len(events) :
    (events[j].cb = "new_message" /\ events[j].name = "bitfield")
      => /\ Len(events[j].attrs.bitfield)
              = DeclaredLength(files[events[j].file], events[j].off) - 1
         /\ events[j].attrs.bitfield
              = SubSeq(files[events[j].file], events[j].off + 6,
                       events[j].off + 4
                         + DeclaredLength(files[events[j].file], events[j].off))

\* the parser and the call context at the current message, the buffer ending
\* where the message ends
OwnRangeOutcomes ==
  parse_message(
    [ext |-> ext, pieces |-> pieces, size |-> current_pieces_size,
     events |-> events, log |-> log],
    [stream |-> SubSeq(files[fi], 1, n + 4 + DeclaredLength(files[fi], n)),
     n |-> n, file |-> fi, infohash |-> current_infohash, infos |-> infos])

\* C17: what a handler emits for the message at offset n with declared length
\* L depends on the bytes up to n + 4 + L alone: the same message with the
\* buffer ending at n + 4 + L yields the same events, whatever follows it in
\* the stream and whatever L is.
C17_OwnSubRangeOnly ==
  [][(/\ pc = "msg"
      /\ n < Len(files[fi])
      /\ ~TruncatedAt(files[fi], n)
      /\ ~IsKeepAliveAt(files[fi], n))
       => \E r \in OwnRangeOutcomes : r.p.events = events']_vars

(***************************************************************************)
(* Claims checked on streams with undecodable payloads (SpecCodec).        *)
(***************************************************************************)

\* the message at offset n of the current stream is a complete extended
\* message with a bencoded payload (a handshake, or a sub-ID the table maps to
\* ut_metadata, lt_tex or ut_pex) that the codec fails to decode
CodecFailureNext ==
  /\ pc = "msg"
  /\ n < Len(files[fi])
  /\ ~TruncatedAt(files[fi], n)
  /\ IsExtendedAt(files[fi], n)
  /\ \/ SubIdAt(files[fi], n) = 0
     \/ /\ VInt(SubIdAt(files[fi], n)) \in DOMAIN ext
        /\ ext[VInt(SubIdAt(files[fi], n))] \in {N_ut_metadata, N_lt_tex, N_ut_pex}
  /\ ~BDecode(ExtPayloadAt(files[fi], n)).ok

\* C18: a codec failure on a bencoded payload (the extended handshake dict,
\* the ut_metadata, lt_tex and ut_pex payloads) is reported as InvalidStream,
\* and ends the current stream only: the batch goes on with the next file.
C18_CodecFailureIsInvalidStream ==
  [][CodecFailureNext
       => /\ Len(results') = Len(results) + 1
          /\ results'[Len(results')].exc = "InvalidBitTorrentStreamError"
          /\ crashed' = "none"
          /\ pc' = "file"
          /\ fi' = fi + 1]_vars

(***************************************************************************)
(* Claims checked on streams mixing handshakes and other messages          *)
(* (SpecTable).                                                            *)
(***************************************************************************)

\* the message at offset n of the current stream is a complete extended
\* message with sub-ID 0
ExtendedHandshakeNext ==
  /\ pc = "msg"
  /\ n < Len(files[fi])
  /\ ~TruncatedAt(files[fi], n)
  /\ IsExtendedAt(files[fi], n)
  /\ SubIdAt(files[fi], n) = 0

\* C19: the ExtensionTable changes only in the step that handles an extended
\* message with sub-ID 0; keep-alives, unknown IDs, static messages and
\* extended messages with a nonzero sub-ID leave it as it is; and 0 is never
\* a key of the table.
C19_TableChangedByHandshakeOnly ==
  /\ [][ext' # ext => ExtendedHandshakeNext]_vars
  /\ [](VInt(0) \notin DOMAIN ext)

\* C19's case: after a handshake installed a sub-ID, a handshake with the
\* number 0, a keep-alive or an ID with no handler, and an extended message
\* with a nonzero sub-ID have been handled in the stream.
C19_Witness ==
  /\ Len(results) = 1
  /\ results[1].exc = "none"
  /\ DOMAIN ext # {}
  /\ \E a, b \in OffsetsBefore(files[1], Len(files[1])) :
       /\ HandshakeMaps(files[1], a, N_upload_only, 3)
       /\ a < b
       /\ \/ HandshakeMaps(files[1], b, N_upload_only, 0)
          \/ IsKeepAliveAt(files[1], b)
          \/ IdAt(files[1], b) = 10
  /\ \E j \in 1..Len(events) : events[j].cb = "new_extended_message"

(***************************************************************************)
(* Claims checked on streams whose handlers fail (SpecUnknown).            *)
(***************************************************************************)

\* C20: an 'unknown' event is emitted only for a message whose ID has no
\* handler in the dispatch table; a message with a registered ID (ID 20
\* included), whatever its payload and whatever fails in its handler, makes
\* no 'unknown' event.
C20_UnknownOnlyForUnregisteredIds ==
  \A j \in 1..Len(events) :
    (events[j].cb = "new_message" /\ events[j].name = "unknown")
      => IdAt(files[events[j].file], events[j].off) \notin StaticIds \cup {20}

====
